---------------------------- MODULE Spec2Model ----------------------------
(***************************************************************************)
(* A model of parse_mbox.py: the content decoder (Decoder), the chained    *)
(* body extractor (EmailDecoder), the header word decoder                  *)
(* (SubjectDecoder), the message tree walker and record builder            *)
(* (GmailMboxMessage), the tabular sink (ExcelSheet) and main's loop.      *)
(*                                                                         *)
(* A Python str is a sequence of code points (naturals); a Python bytes    *)
(* object is a sequence of naturals below 256.  None is the sequence       *)
(* <<-1>>, which is neither.  A call that may raise returns a record       *)
(* [exc, val]: exc is "" when the call returned val, and the name of the   *)
(* exception otherwise.                                                    *)
(***************************************************************************)
EXTENDS Integers, Sequences, FiniteSets, TLC

(***************************************************************************)
(* Text literals                                                           *)
(***************************************************************************)

\* The printable ASCII characters, code points 32 to 126, in order.
Printable ==
  << " ", "!", "\"", "#", "$", "%", "&", "'", "(", ")", "*", "+", ",", "-", ".", "/",
     "0", "1", "2", "3", "4", "5", "6", "7", "8", "9", ":", ";", "<", "=", ">", "?",
     "@", "A", "B", "C", "D", "E", "F", "G", "H", "I", "J", "K", "L", "M", "N", "O",
     "P", "Q", "R", "S", "T", "U", "V", "W", "X", "Y", "Z", "[", "\\", "]", "^", "_",
     "<grave>", "a", "b", "c", "d", "e", "f", "g", "h", "i", "j", "k", "l", "m", "n", "o",
     "p", "q", "r", "s", "t", "u", "v", "w", "x", "y", "z", "{", "|", "}", "~" >>

\* The code point of a one-character literal ("\r" and "\n" included).
Ord(c) ==
  IF c = "\n" THEN 10
  ELSE IF c = "\r" THEN 13
  ELSE 31 + (CHOOSE i \in 1..Len(Printable) : Printable[i] = c)

\* The str whose characters are the one-character literals of the tuple t.
Str(t) == [i \in 1..Len(t) |-> Ord(t[i])]

None == << -1 >>

Ok(v) == [exc |-> "", val |-> v]

Raise(e) == [exc |-> e, val |-> None]

\* What F makes of the value the call r returned; the exception r raised
\* propagates.
Then(r, F(_)) == IF r.exc # "" THEN Raise(r.exc) ELSE F(r.val)

NA == Str(<<"N", "A">>)

utf_8 == Str(<<"u", "t", "f", "-", "8">>)

iso_2022_jp == Str(<<"i", "s", "o", "-", "2", "0", "2", "2", "-", "j", "p">>)

iso_8859_2 == Str(<<"i", "s", "o", "-", "8", "8", "5", "9", "-", "2">>)

us_ascii == Str(<<"u", "s", "-", "a", "s", "c", "i", "i">>)

base64 == Str(<<"b", "a", "s", "e", "6", "4">>)

quoted_printable ==
  Str(<<"q", "u", "o", "t", "e", "d", "-", "p", "r", "i", "n", "t", "a", "b", "l", "e">>)

text_plain == Str(<<"t", "e", "x", "t", "/", "p", "l", "a", "i", "n">>)

(***************************************************************************)
(* str methods the program uses                                            *)
(***************************************************************************)

\* s[i:j] of Python for 1-based positions: the characters i..j of s.
Slice(s, i, j) == IF j < i THEN <<>> ELSE SubSeq(s, i, j)

\* Whether sub occurs in s at position i.
MatchAt(s, sub, i) ==
  /\ i >= 1
  /\ i + Len(sub) - 1 <= Len(s)
  /\ \A k \in 1..Len(sub) : s[i + k - 1] = sub[k]

\* sub in s
Contains(s, sub) == \E i \in 1..(Len(s) + 1) : MatchAt(s, sub, i)

\* chr(c).lower() for a code point of the Latin-1 range.
LowerChar(c) ==
  CASE c >= 65 /\ c <= 90 -> c + 32
    [] c >= 192 /\ c <= 222 /\ c # 215 -> c + 32
    [] c >= 0 /\ c <= 255 /\ ~(c >= 65 /\ c <= 90)
         /\ ~(c >= 192 /\ c <= 222 /\ c # 215) -> c

\* str.lower()
lower(s) == [i \in 1..Len(s) |-> LowerChar(s[i])]

\* str.isspace() of one character of the Latin-1 range.
IsSpace(c) == (c >= 9 /\ c <= 13) \/ (c >= 28 /\ c <= 32) \/ c = 133 \/ c = 160

\* str.strip(): leading and trailing whitespace removed.
strip(s) ==
  IF \A i \in 1..Len(s) : IsSpace(s[i]) THEN <<>>
  ELSE LET a == CHOOSE i \in 1..Len(s) :
                  ~IsSpace(s[i]) /\ \A k \in 1..(i - 1) : IsSpace(s[k])
           b == CHOOSE i \in 1..Len(s) :
                  ~IsSpace(s[i]) /\ \A k \in (i + 1)..Len(s) : IsSpace(s[k])
       IN Slice(s, a, b)

\* str.replace(old, empty) for a one-character old.
RemoveChar(s, c) == SelectSeq(s, LAMBDA x : x # c)

\* The indices of a sequence, in order.
Indices(s) == [i \in 1..Len(s) |-> i]

\* The concatenation of the sequences ss[lo..hi], by halves.
RECURSIVE Flatten(_, _, _)
Flatten(ss, lo, hi) ==
  IF lo > hi THEN <<>>
  ELSE IF lo = hi THEN ss[lo]
  ELSE LET mid == (lo + hi) \div 2
       IN Flatten(ss, lo, mid) \o Flatten(ss, mid + 1, hi)

\* str.split(sep) for a one-character sep: the list of the pieces.
RECURSIVE SplitChar(_, _)
SplitChar(s, c) ==
  IF \A i \in 1..Len(s) : s[i] # c THEN <<s>>
  ELSE LET p == CHOOSE i \in 1..Len(s) : s[i] = c /\ \A k \in 1..(i - 1) : s[k] # c
       IN <<Slice(s, 1, p - 1)>> \o SplitChar(Slice(s, p + 1, Len(s)), c)

\* the join of a list of str on the empty separator
Join(l) == Flatten(l, 1, Len(l))

(***************************************************************************)
(* The codecs behind str.encode and bytes.decode                           *)
(***************************************************************************)

IsCont(b) == b >= 128 /\ b <= 191

\* The UTF-8 bytes of one code point; <<>> for a surrogate, which has none.
Utf8EncodeChar(c) ==
  CASE c < 128 -> <<c>>
    [] c >= 128 /\ c < 2048 -> <<192 + (c \div 64), 128 + (c % 64)>>
    [] c >= 2048 /\ c < 55296 ->
         <<224 + (c \div 4096), 128 + ((c \div 64) % 64), 128 + (c % 64)>>
    [] c >= 55296 /\ c < 57344 -> <<>>
    [] c >= 57344 /\ c < 65536 ->
         <<224 + (c \div 4096), 128 + ((c \div 64) % 64), 128 + (c % 64)>>
    [] c >= 65536 ->
         <<240 + (c \div 262144), 128 + ((c \div 4096) % 64),
           128 + ((c \div 64) % 64), 128 + (c % 64)>>

\* The length of the UTF-8 sequence that starts at b[i], 0 when b[i] starts
\* none or the sequence is cut short or malformed.
Utf8SeqLen(b, i) ==
  LET n == Len(b)
      b1 == b[i]
      b2 == b[i + 1]
      b3 == b[i + 2]
      b4 == b[i + 3]
  IN CASE b1 < 128 -> 1
       [] b1 >= 128 /\ b1 < 194 -> 0
       [] b1 >= 194 /\ b1 <= 223 -> IF i + 1 <= n /\ IsCont(b2) THEN 2 ELSE 0
       [] b1 >= 224 /\ b1 <= 239 ->
            IF /\ i + 2 <= n
               /\ IsCont(b2)
               /\ IsCont(b3)
               /\ (b1 = 224 => b2 >= 160)
               /\ (b1 = 237 => b2 <= 159)
            THEN 3 ELSE 0
       [] b1 >= 240 /\ b1 <= 244 ->
            IF /\ i + 3 <= n
               /\ IsCont(b2)
               /\ IsCont(b3)
               /\ IsCont(b4)
               /\ (b1 = 240 => b2 >= 144)
               /\ (b1 = 244 => b2 <= 143)
            THEN 4 ELSE 0
       [] b1 > 244 -> 0

\* The code point of the well-formed UTF-8 sequence of length k at b[i].
Utf8CodePoint(b, i, k) ==
  CASE k = 1 -> b[i]
    [] k = 2 -> (b[i] - 192) * 64 + (b[i + 1] - 128)
    [] k = 3 -> (b[i] - 224) * 4096 + (b[i + 1] - 128) * 64 + (b[i + 2] - 128)
    [] k = 4 -> (b[i] - 240) * 262144 + (b[i + 1] - 128) * 4096
                  + (b[i + 2] - 128) * 64 + (b[i + 3] - 128)

\* bytes.decode('utf-8'): every byte that is no continuation byte starts a
\* well-formed sequence, and every continuation byte lies in one.
Utf8Decode(b) ==
  LET leads == SelectSeq(Indices(b), LAMBDA i : ~IsCont(b[i]))
  IN IF /\ \A i \in 1..Len(b) : ~IsCont(b[i]) => Utf8SeqLen(b, i) > 0
        /\ \A j \in 1..Len(b) :
             IsCont(b[j]) =>
               \E i \in 1..(j - 1) : ~IsCont(b[i]) /\ Utf8SeqLen(b, i) > j - i
     THEN Ok([m \in 1..Len(leads) |->
                Utf8CodePoint(b, leads[m], Utf8SeqLen(b, leads[m]))])
     ELSE Raise("UnicodeDecodeError")

\* The code points of the bytes 160..255 of ISO-8859-2, in order.
Latin2High ==
  << 160, 260, 728, 321, 164, 317, 346, 167, 168, 352, 350, 356, 377, 173, 381, 379,
     176, 261, 731, 322, 180, 318, 347, 711, 184, 353, 351, 357, 378, 733, 382, 380,
     340, 193, 194, 258, 196, 313, 262, 199, 268, 201, 280, 203, 282, 205, 206, 270,
     272, 323, 327, 211, 212, 336, 214, 215, 344, 366, 218, 368, 220, 221, 354, 223,
     341, 225, 226, 259, 228, 314, 263, 231, 269, 233, 281, 235, 283, 237, 238, 271,
     273, 324, 328, 243, 244, 337, 246, 247, 345, 367, 250, 369, 252, 253, 355, 729 >>

\* The bytes of one code point under a charset; <<>> when it has none
\* (UnicodeEncodeError).  ISO-2022-JP is modelled outside its escape
\* sequences only: on the code points below 128 other than ESC, SO and SI,
\* which encode as themselves, and on the code points 128..255 that JIS X
\* 0201 and JIS X 0208 do not hold, which cannot be encoded.
EncodeChar(c, charset) ==
  CASE charset = utf_8 -> Utf8EncodeChar(c)
    [] charset = us_ascii -> IF c < 128 THEN <<c>> ELSE <<>>
    [] charset = iso_8859_2 ->
         IF c < 160 THEN <<c>>
         ELSE IF \E k \in 1..Len(Latin2High) : Latin2High[k] = c
              THEN <<159 + (CHOOSE k \in 1..Len(Latin2High) : Latin2High[k] = c)>>
              ELSE <<>>
    [] charset = iso_2022_jp /\ c < 128 /\ c \notin {14, 15, 27} -> <<c>>
    [] charset = iso_2022_jp /\ c >= 128 /\ c <= 255
         /\ c \notin {162, 163, 165, 167, 168, 172, 176, 177, 180, 182, 215, 247} -> <<>>

\* str.encode(charset)
encode(s, charset) ==
  LET e == [i \in 1..Len(s) |-> EncodeChar(s[i], charset)]
  IN IF \E i \in 1..Len(s) : e[i] = <<>> THEN Raise("UnicodeEncodeError")
     ELSE Ok(Flatten(e, 1, Len(s)))

\* The code point of one byte under a single-byte charset, -1 when the byte
\* is invalid.  ISO-2022-JP is modelled outside its escape sequences only: a
\* byte string holding ESC is outside the model.
DecodeByte(c, charset) ==
  CASE charset = us_ascii -> IF c < 128 THEN c ELSE -1
    [] charset = iso_8859_2 -> IF c < 160 THEN c ELSE Latin2High[c - 159]
    [] charset = iso_2022_jp /\ c # 27 -> IF c < 128 THEN c ELSE -1

\* bytes.decode(charset)
decode(b, charset) ==
  IF charset = utf_8 THEN Utf8Decode(b)
  ELSE LET cp == [i \in 1..Len(b) |-> DecodeByte(b[i], charset)]
       IN IF \E i \in 1..Len(b) : cp[i] = -1 THEN Raise("UnicodeDecodeError")
          ELSE Ok(cp)

(***************************************************************************)
(* The transfer decodings: base64.b64decode and quopri.decodestring        *)
(***************************************************************************)

\* The value of a character of the base64 alphabet, 64 for any other byte.
B64Value(c) ==
  CASE c >= 65 /\ c <= 90 -> c - 65
    [] c >= 97 /\ c <= 122 -> c - 71
    [] c >= 48 /\ c <= 57 -> c + 4
    [] c = 43 -> 62
    [] c = 47 -> 63
    [] OTHER -> 64

\* The bytes that n values of 6 bits hold: three for every four values, one
\* for two left over and two for three left over.
B64Bytes(v) ==
  LET n == Len(v)
      nb == (n \div 4) * 3 + (IF n % 4 = 2 THEN 1 ELSE IF n % 4 = 3 THEN 2 ELSE 0)
  IN [k \in 1..nb |->
        LET g == 4 * ((k - 1) \div 3)
        IN CASE (k - 1) % 3 = 0 -> v[g + 1] * 4 + (v[g + 2] \div 16)
             [] (k - 1) % 3 = 1 -> (v[g + 2] % 16) * 16 + (v[g + 3] \div 4)
             [] (k - 1) % 3 = 2 -> (v[g + 3] % 4) * 64 + v[g + 4]]

\* binascii.a2b_base64 in its default, non-strict mode.  Bytes outside the
\* alphabet are skipped.  Among the others (f), "=" ends the input when it
\* completes the quad: at quad position 3, or at quad position 2 as the
\* second "=" in a row.  Without such padding, an incomplete quad at the
\* end raises binascii.Error.
b64decode(data) ==
  LET f == SelectSeq(data, LAMBDA c : c = 61 \/ B64Value(c) < 64)
      quad_pos(j) == Cardinality({k \in 1..(j - 1) : f[k] # 61}) % 4
      stop(j) ==
        /\ f[j] = 61
        /\ \/ quad_pos(j) = 3
           \/ quad_pos(j) = 2 /\ j > 1 /\ f[j - 1] = 61
      values(n) == [k \in 1..Len(SelectSeq(SubSeq(f, 1, n), LAMBDA c : c # 61)) |->
                      B64Value(SelectSeq(SubSeq(f, 1, n), LAMBDA c : c # 61)[k])]
  IN IF \E j \in 1..Len(f) : stop(j)
     THEN Ok(B64Bytes(values(CHOOSE j \in 1..Len(f) :
                               stop(j) /\ \A k \in 1..(j - 1) : ~stop(k))))
     ELSE IF Len(values(Len(f))) % 4 # 0 THEN Raise("binascii.Error")
          ELSE Ok(B64Bytes(values(Len(f))))

IsHex(c) == (c >= 48 /\ c <= 57) \/ (c >= 65 /\ c <= 70) \/ (c >= 97 /\ c <= 102)

HexValue(c) ==
  CASE c >= 48 /\ c <= 57 -> c - 48
    [] c >= 65 /\ c <= 70 -> c - 55
    [] c >= 97 /\ c <= 102 -> c - 87

\* binascii.a2b_qp with header=False, which quopri.decodestring calls: it
\* never raises.  It reads the data token by token; QpNext is the position
\* after the token at i.  "=" before a line break is a soft line break (the
\* data up to the next line feed is skipped), "==" is "=", "=" before two
\* hex digits is the byte they name, any other "=" stays, a final "=" is
\* dropped.
QpNext(data, i) ==
  LET n == Len(data)
  IN IF i > n THEN n + 1
     ELSE IF data[i] # 61 THEN i + 1
     ELSE IF i + 1 > n THEN n + 1
     ELSE IF data[i + 1] = 10 \/ data[i + 1] = 13
          THEN IF \E k \in (i + 1)..n : data[k] = 10
               THEN 1 + (CHOOSE k \in (i + 1)..n :
                           data[k] = 10 /\ \A j \in (i + 1)..(k - 1) : data[j] # 10)
               ELSE n + 1
     ELSE IF data[i + 1] = 61 THEN i + 2
     ELSE IF i + 2 <= n /\ IsHex(data[i + 1]) /\ IsHex(data[i + 2]) THEN i + 3
     ELSE i + 1

\* The byte the token at i puts out, <<>> when it puts out none.
QpEmit(data, i) ==
  LET n == Len(data)
  IN IF data[i] # 61 THEN <<data[i]>>
     ELSE IF i + 1 > n THEN <<>>
     ELSE IF data[i + 1] = 10 \/ data[i + 1] = 13 THEN <<>>
     ELSE IF data[i + 1] = 61 THEN <<61>>
     ELSE IF i + 2 <= n /\ IsHex(data[i + 1]) /\ IsHex(data[i + 2])
          THEN <<HexValue(data[i + 1]) * 16 + HexValue(data[i + 2])>>
     ELSE <<61>>

\* The positions reached from those of r by fewer than m * 2^k steps of a
\* step function whose m-fold iterate is j (k rounds of doubling are left).
RECURSIVE Orbit(_, _, _)
Orbit(j, r, k) ==
  IF k = 0 THEN r
  ELSE Orbit([x \in DOMAIN j |-> j[j[x]]], r \cup {j[x] : x \in r}, k - 1)

\* The least k with 2^k >= n.
RECURSIVE Log2(_)
Log2(n) == IF n <= 1 THEN 0 ELSE 1 + Log2((n + 1) \div 2)

\* The positions at which a2b_qp reads a token.
QpTokens(data) ==
  LET n == Len(data)
      next == [i \in 1..(n + 1) |-> QpNext(data, i)]
  IN Orbit(next, {1}, Log2(n + 1)) \ {n + 1}

QpLoop(data) ==
  LET tokens == QpTokens(data)
      emitting == SelectSeq(Indices(data),
                            LAMBDA i : i \in tokens /\ QpEmit(data, i) # <<>>)
  IN [m \in 1..Len(emitting) |-> QpEmit(data, emitting[m])[1]]

decodestring(data) == Ok(QpLoop(data))


(***************************************************************************)
(* class Decoder                                                           *)
(***************************************************************************)

Decoder_encode_charset(msg, charset) == encode(msg, charset)

\* Decoder.__init__: the result holds self.bynary.
Decoder_init(msg, charset, transfer_method) == Decoder_encode_charset(msg, charset)

Decoder_decode_charset(msg, charset) ==
  IF msg = None THEN Raise("AttributeError") ELSE decode(msg, charset)

Decoder_decode_with_base64(bynary) == b64decode(bynary)

Decoder_decode_with_quoted_printable(bynary) == decodestring(bynary)

\* The if/elif has no else: any other transfer_method returns None.
Decoder_decode_with_transfer(bynary, transfer_method) ==
  IF transfer_method = base64 THEN Decoder_decode_with_base64(bynary)
  ELSE IF transfer_method = quoted_printable
       THEN Decoder_decode_with_quoted_printable(bynary)
       ELSE Ok(None)

Decoder_call(bynary, charset, transfer_method) ==
  Then(Decoder_decode_with_transfer(bynary, transfer_method),
       LAMBDA decoded_transfer : Decoder_decode_charset(decoded_transfer, charset))

(***************************************************************************)
(* class EmailDecoder                                                      *)
(***************************************************************************)

From_colon == Str(<<"F", "r", "o", "m", ":">>)

\* Whether the regular expression r'..From:' matches at position i of s:
\* "." is any character but a line feed (the pattern is compiled without
\* re.DOTALL).
ChainedMatchAt(s, i) ==
  /\ i + 1 <= Len(s)
  /\ s[i] # 10
  /\ s[i + 1] # 10
  /\ MatchAt(s, From_colon, i + 2)

\* self.regex.split(decoded_text)[0]: the text before the leftmost match,
\* all of it when there is none.
ChainedSplitFirst(s) ==
  IF \E i \in 1..Len(s) : ChainedMatchAt(s, i)
  THEN LET p == CHOOSE i \in 1..Len(s) :
                  ChainedMatchAt(s, i) /\ \A k \in 1..(i - 1) : ~ChainedMatchAt(s, k)
       IN Slice(s, 1, p - 1)
  ELSE s

EmailDecoder_init(msg, charset, transfer_method) ==
  Decoder_init(msg, charset, transfer_method)

EmailDecoder_fetch_first_email(bynary, charset, transfer_method) ==
  Then(Decoder_call(bynary, charset, transfer_method),
       LAMBDA decoded_text :
         Ok(RemoveChar(RemoveChar(ChainedSplitFirst(decoded_text), 13), 10)))

(***************************************************************************)
(* class SubjectDecoder                                                    *)
(***************************************************************************)

\* The length of the match of the regular expression of _set_regex,
\*     =\?(utf\-8|iso\-2022\-jp)\?.\?
\* at position i of s, 0 when it does not match there.  The pattern is
\* compiled with re.VERBOSE alone: letters match in their own case only.
SubjectMatchLen(s, i) ==
  LET l == IF MatchAt(s, utf_8, i + 2) THEN Len(utf_8)
           ELSE IF MatchAt(s, iso_2022_jp, i + 2) THEN Len(iso_2022_jp)
           ELSE 0
  IN IF /\ MatchAt(s, Str(<<"=", "?">>), i)
        /\ l > 0
        /\ i + l + 4 <= Len(s)
        /\ s[i + l + 2] = Ord("?")
        /\ s[i + l + 3] # 10
        /\ s[i + l + 4] = Ord("?")
     THEN l + 5
     ELSE 0

\* self.regex.search over s[from..]: the position of the leftmost match, 0
\* when there is none.
SubjectSearch(s, from) ==
  IF \E i \in from..Len(s) : SubjectMatchLen(s, i) > 0
  THEN CHOOSE i \in from..Len(s) :
         SubjectMatchLen(s, i) > 0 /\ \A k \in from..(i - 1) : SubjectMatchLen(s, k) = 0
  ELSE 0

\* self.regex.split(line)[-1]: the text after the last of the matches,
\* which are found left to right and do not overlap.
RECURSIVE SubjectSplitLast(_, _)
SubjectSplitLast(s, from) ==
  LET p == SubjectSearch(s, from)
  IN IF p = 0 THEN Slice(s, from, Len(s))
     ELSE SubjectSplitLast(s, p + SubjectMatchLen(s, p))

SubjectDecoder_is_required_to_decode(subject) == SubjectSearch(subject, 1) # 0

\* search is None on a line without a marker: search.group raises.
SubjectDecoder_identify_decode_method(line0) ==
  LET line == strip(line0)
      search == SubjectSearch(line, 1)
      n == SubjectMatchLen(line, search)
      charset == Slice(line, search + 2, search + n - 4)
      decoded_way_char == line[search + n - 2]
      transfer_method == IF decoded_way_char = Ord("B") THEN base64
                         ELSE quoted_printable
      decodable_text == SubjectSplitLast(line, 1)
  IN IF search = 0 THEN Raise("AttributeError")
     ELSE Ok([transfer_method |-> transfer_method, charset |-> charset,
              text |-> decodable_text])

SubjectDecoder_decode_line(obj) ==
  Then(Decoder_init(obj.text, obj.charset, obj.transfer_method),
       LAMBDA bynary : Decoder_call(bynary, obj.charset, obj.transfer_method))

\* The loop of _decode_subject over lines[i..], decoded_subject so far.
RECURSIVE SubjectDecoder_decode_lines(_, _, _)
SubjectDecoder_decode_lines(lines, i, decoded_subject) ==
  IF i > Len(lines) THEN Ok(Join(decoded_subject))
  ELSE IF Len(lines[i]) < 10
       THEN SubjectDecoder_decode_lines(lines, i + 1, decoded_subject)
  ELSE Then(SubjectDecoder_identify_decode_method(lines[i]),
            LAMBDA encoding :
              Then(SubjectDecoder_decode_line(encoding),
                   LAMBDA decoded :
                     SubjectDecoder_decode_lines(lines, i + 1,
                                                 Append(decoded_subject, decoded))))

SubjectDecoder_decode_subject(subject) ==
  SubjectDecoder_decode_lines(SplitChar(subject, 10), 1, <<>>)

SubjectDecoder_call(subject) ==
  IF ~SubjectDecoder_is_required_to_decode(subject) THEN Ok(subject)
  ELSE SubjectDecoder_decode_subject(subject)


(***************************************************************************)
(* Messages.  The payload of a message is a str or a list of parts; a      *)
(* part is a message or, as _get_email_messages allows, a list of parts.   *)
(* Every node is a record of one shape:                                    *)
(*   kind   "str" (a bare payload string), "msg" or "list";                *)
(*   ctype  the Content-Type header of a message, None when it has none;   *)
(*   cte    its Content-Transfer-Encoding header, None when it has none;   *)
(*   multi  is_multipart(): whether the payload of a message is a list;    *)
(*   text   a str's characters, or the payload of a message that is one;   *)
(*   items  the parts of a multipart message or of a list.                 *)
(***************************************************************************)

StrNode(t) ==
  [kind |-> "str", ctype |-> None, cte |-> None, multi |-> FALSE, text |-> t,
   items |-> <<>>]

LeafMessage(ctype, cte, payload) ==
  [kind |-> "msg", ctype |-> ctype, cte |-> cte, multi |-> FALSE, text |-> payload,
   items |-> <<>>]

MultipartMessage(ctype, cte, parts) ==
  [kind |-> "msg", ctype |-> ctype, cte |-> cte, multi |-> TRUE, text |-> None,
   items |-> parts]

ListNode(parts) ==
  [kind |-> "list", ctype |-> None, cte |-> None, multi |-> FALSE, text |-> None,
   items |-> parts]

\* Message.get_payload(): the list of parts, or the payload string.
get_payload(msg) == IF msg.multi THEN ListNode(msg.items) ELSE StrNode(msg.text)

\* Message.get(name, failobj) for a header value h that is None when the
\* message has no such header.
get(h, failobj) == IF h = None THEN failobj ELSE h

\* Message.get_content_type(): the text of the Content-Type header before
\* its first ";", stripped and in lower case; text/plain when there is no
\* header or the text does not hold exactly one "/".
get_content_type(msg) ==
  LET value == msg.ctype
      semi == Ord(";")
      first == IF \E i \in 1..Len(value) : value[i] = semi
               THEN Slice(value, 1,
                          (CHOOSE i \in 1..Len(value) :
                             value[i] = semi /\ \A k \in 1..(i - 1) : value[k] # semi) - 1)
               ELSE value
      ctype == lower(strip(first))
  IN IF value = None THEN text_plain
     ELSE IF Cardinality({i \in 1..Len(ctype) : ctype[i] = Ord("/")}) # 1 THEN text_plain
     ELSE ctype

(***************************************************************************)
(* class GmailMboxMessage                                                  *)
(***************************************************************************)

\* The messages the generator yields for a payload list, in order: lists
\* and multipart messages are flattened in place.  The parts of a list are
\* messages or lists.
RECURSIVE GmailMboxMessage_get_email_messages(_)
GmailMboxMessage_get_email_messages(email_payload) ==
  IF email_payload = <<>> THEN <<>>
  ELSE LET msg == Head(email_payload)
           rest == GmailMboxMessage_get_email_messages(Tail(email_payload))
       IN CASE msg.kind = "list" ->
                 GmailMboxMessage_get_email_messages(msg.items) \o rest
            [] msg.kind = "msg" /\ msg.multi ->
                 GmailMboxMessage_get_email_messages(get_payload(msg).items) \o rest
            [] msg.kind = "msg" /\ ~msg.multi -> <<msg>> \o rest

GmailMboxMessage_fetch_content_type(msg) ==
  IF msg.kind = "str" THEN NA ELSE get_content_type(msg)

\* One test of _fetch_charset: if name in charset.lower(): charset = name
IfIn(name, charset) == IF Contains(lower(charset), name) THEN name ELSE charset

\* The four tests run in turn, each on the value the one before left.
GmailMboxMessage_fetch_charset(msg) ==
  IfIn(us_ascii,
       IfIn(iso_8859_2,
            IfIn(iso_2022_jp,
                 IfIn(utf_8, IF msg.kind = "str" THEN NA ELSE get(msg.ctype, NA)))))

GmailMboxMessage_fetch_encoding_method(msg) ==
  IF msg.kind = "str" THEN NA ELSE get(msg.cte, NA)

\* A faulty gate, which compares the transfer encoding as it is declared,
\* without lower(): EligibilityGate tells it from the gate of the code.
ReadableAsDeclared(content_type, encoded_way, charset) ==
  /\ Contains(lower(content_type), text_plain)
  /\ encoded_way \in {base64, quoted_printable}
  /\ charset \in {utf_8, iso_2022_jp, iso_8859_2, us_ascii}

GmailMboxMessage_is_readable_text(content_type, encoded_way, charset) ==
  /\ Contains(lower(content_type), text_plain)
  /\ lower(encoded_way) \in {base64, quoted_printable}
  /\ charset \in {utf_8, iso_2022_jp, iso_8859_2, us_ascii}

\* The result r of a call, with whether an EmailDecoder was made for it.
WithDecoder(r, made) == [exc |-> r.exc, val |-> r.val, decoder |-> made]

\* The result holds msg_text; decoder tells whether an EmailDecoder was made.
GmailMboxMessage_create_readable_text(msg, content_type, encoding, charset) ==
  IF GmailMboxMessage_is_readable_text(content_type, encoding, charset)
  THEN WithDecoder(Then(EmailDecoder_init(get_payload(msg).text, charset, encoding),
                        LAMBDA bynary :
                          EmailDecoder_fetch_first_email(bynary, charset, encoding)),
                   TRUE)
  ELSE WithDecoder(Ok(NA), FALSE)

\* The result holds the tuple (content_type, charset, encoding, msg_text).
GmailMboxMessage_read_email_text(msg) ==
  LET content_type == GmailMboxMessage_fetch_content_type(msg)
      encoding == GmailMboxMessage_fetch_encoding_method(msg)
      charset == GmailMboxMessage_fetch_charset(msg)
  IN [GmailMboxMessage_create_readable_text(msg, content_type, encoding, charset)
        EXCEPT !.val = <<content_type, charset, encoding, @>>]

\* A faulty _read_email_payload, whose single leaf of a message that is not
\* multipart is the message, not its payload string: NonMultipartIsNA tells
\* it from the code.
MessageAsLeaf(email_data) ==
  IF email_data.multi
  THEN GmailMboxMessage_get_email_messages(get_payload(email_data).items)
  ELSE <<email_data>>

\* email_messages of _read_email_payload: the leaves of a multipart
\* message, the bare payload string of any other.
GmailMboxMessage_email_messages(email_data) ==
  IF email_data.multi
  THEN GmailMboxMessage_get_email_messages(get_payload(email_data).items)
  ELSE <<get_payload(email_data)>>

\* The list comprehension of _read_email_payload over email_messages[i..]:
\* the first leaf that raises ends it.
RECURSIVE ReadEmailTexts(_, _)
ReadEmailTexts(email_messages, i) ==
  IF i > Len(email_messages) THEN Ok(<<>>)
  ELSE Then(GmailMboxMessage_read_email_text(email_messages[i]),
            LAMBDA t :
              Then(ReadEmailTexts(email_messages, i + 1),
                   LAMBDA rest : Ok(<<t>> \o rest)))

GmailMboxMessage_read_email_payload(email_data) ==
  ReadEmailTexts(GmailMboxMessage_email_messages(email_data), 1)

\* A dict as the list of its items, in insertion order.
Pair(k, v) == [key |-> k, value |-> v]

\* email is [Date, From, To, Subject, msg]: the four headers (None when the
\* message has none) and the message node.  The dict parse_email returns.
Record(email, email_subject, content) ==
  << Pair(Str(<<"D", "a", "t", "e">>), email.Date), Pair(Str(<<"F", "r", "o", "m">>), email.From), Pair(Str(<<"T", "o">>), email.To),
     Pair(Str(<<"S", "u", "b", "j", "e", "c", "t">>), email_subject), Pair(Str(<<"C", "o", "n", "t", "e", "n", "t", "_", "t", "y", "p", "e">>), content[1]),
     Pair(Str(<<"C", "h", "a", "r", "s", "e", "t">>), content[2]), Pair(Str(<<"T", "r", "a", "n", "s", "f", "e", "r">>), content[3]),
     Pair(Str(<<"T", "e", "x", "t">>), content[4]) >>

\* The result holds the record; indexing an empty list of leaves raises
\* IndexError.
GmailMboxMessage_parse_email(email) ==
  Then(SubjectDecoder_call(IF email.Subject = None THEN Str(<<"N", "o", "n", "e">>) ELSE email.Subject),
       LAMBDA email_subject :
         Then(GmailMboxMessage_read_email_payload(email.msg),
              LAMBDA payload :
                IF payload = <<>> THEN Raise("IndexError")
                ELSE Ok(Record(email, email_subject, payload[1]))))


(***************************************************************************)
(* class ExcelSheet.  self is [content, row]; the worksheet is the list of *)
(* the calls made on the xlsxwriter objects, each [op, row, col, item]:    *)
(* worksheet.write(row, col, item) and workbook.close().                   *)
(***************************************************************************)

Write(row, col, item) == [op |-> "write", row |-> row, col |-> col, item |-> item]

Close == [op |-> "close", row |-> -1, col |-> -1, item |-> None]

ExcelSheet_init == [content |-> <<>>, row |-> 0]

ExcelSheet_set_content(self, content) == [self EXCEPT !.content = content]

ExcelSheet_fetch_titles(self) == [i \in 1..Len(self.content) |-> self.content[i].key]

\* The calls of _write_title: one write per title, in row self.row.
ExcelSheet_write_title(self) ==
  LET titles == ExcelSheet_fetch_titles(self)
  IN [i \in 1..Len(titles) |-> Write(self.row, i - 1, titles[i])]

\* The calls of _write_content: one write per value, in row self.row.
ExcelSheet_write_content(self) ==
  [i \in 1..Len(self.content) |-> Write(self.row, i - 1, self.content[i].value)]

\* A faulty call, without the self.row += 1 that follows _write_title:
\* RowOrder tells it from the code.
CallWithoutTitleRow(self, content) ==
  LET s1 == ExcelSheet_set_content(self, content)
      title == IF s1.row = 0 THEN ExcelSheet_write_title(s1) ELSE <<>>
  IN [self |-> [s1 EXCEPT !.row = s1.row + 1],
      calls |-> title \o ExcelSheet_write_content(s1)]

\* ExcelSheet.call: the sheet after the call and the calls it made.
ExcelSheet_call(self, content) ==
  LET s1 == ExcelSheet_set_content(self, content)
      title == IF s1.row = 0 THEN ExcelSheet_write_title(s1) ELSE <<>>
      s2 == IF s1.row = 0 THEN [s1 EXCEPT !.row = s1.row + 1] ELSE s1
  IN [self |-> [s2 EXCEPT !.row = s2.row + 1],
      calls |-> title \o ExcelSheet_write_content(s2)]


(***************************************************************************)
(* The state                                                               *)
(***************************************************************************)

VARIABLES
  subject,          \* SubjectDecoder: self.subject
  decoded_subject,  \* SubjectDecoder: what call() returned or raised
  body,             \* EmailDecoder: the arguments [msg, charset, transfer_method]
  bynary,           \* EmailDecoder: self.bynary, as __init__ left it
  first_email,      \* EmailDecoder: what fetch_first_email() returned or raised
  email,            \* GmailMboxMessage: self.email_data
  parse_pc,         \* parse_email: where it stands
  email_subject,    \* parse_email: the decoded Subject
  email_messages,   \* _read_email_payload: the leaves
  read,             \* _read_email_payload: the leaves read so far, with the results
  parse_result,     \* parse_email: what it returned or raised
  calls,            \* ExcelSheet: the contents call() was given, in order
  spreadsheet,      \* ExcelSheet: self
  worksheet,        \* the calls made on the xlsxwriter objects, in order
  pc,               \* main: where it stands
  mbox_obj,         \* main: the messages of the mailbox
  idx,              \* main: the messages parsed and written so far
  workbook,         \* main: "unbound", "open" or "closed"
  logged            \* main: the exceptions error() reported, in order

vars ==
  << subject, decoded_subject, body, bynary, first_email, email, parse_pc,
     email_subject, email_messages, read, parse_result, calls, spreadsheet,
     worksheet, pc, mbox_obj, idx, workbook, logged >>

subjectVars == << subject, decoded_subject >>

bodyVars == << body, bynary, first_email >>

parseVars == << email, parse_pc, email_subject, email_messages, read, parse_result >>

sheetVars == << calls, spreadsheet, worksheet >>

mainVars == << pc, mbox_obj, idx, workbook, logged >>

\* A call that has not returned yet.
Pending == [exc |-> "pending", val |-> None]

\* Each component is checked under a specification of its own, in which
\* the variables of the other components do not change.
SubjectIdle == subject = None /\ decoded_subject = Pending

BodyIdle == body = None /\ bynary = Pending /\ first_email = Pending

ParseIdle ==
  /\ email = None
  /\ parse_pc = "idle"
  /\ email_subject = Pending
  /\ email_messages = <<>>
  /\ read = <<>>
  /\ parse_result = Pending

SheetIdle == calls = <<>> /\ spreadsheet = ExcelSheet_init /\ worksheet = <<>>

MainIdle ==
  /\ pc = "idle"
  /\ mbox_obj = <<>>
  /\ idx = 0
  /\ workbook = "unbound"
  /\ logged = <<>>

\* The strings made of at most n of the given tokens.
RECURSIVE TokenStrings(_, _)
TokenStrings(tokens, n) ==
  IF n = 0 THEN {<<>>}
  ELSE LET shorter == TokenStrings(tokens, n - 1)
       IN shorter \cup {t \o s : t \in tokens, s \in shorter}

(***************************************************************************)
(* SubjectDecoder(subject).call()                                          *)
(***************************************************************************)

MaxSubjectTokens == 3

SubjectTokens ==
  { Str(<<"=", "?", "u", "t", "f", "-", "8", "?", "Q", "?">>), Str(<<"=", "?", "U", "T", "F", "-", "8", "?", "Q", "?">>), Str(<<"=", "?", "i", "s", "o", "-", "2", "0", "2", "2", "-", "j", "p",
        "?", "B", "?">>), Str(<<"=", "?", "u", "t", "f", "-", "8", "?", "B", "?">>),
    Str(<<"M", "a", "r", "q", "u", "=", "C", "3", "=", "A", "9", "s", "_",
        "d", "e", "_", "V", "a", "r", "g", "a", "s", "_", "=", "2", "6",
        "_", "B", "a", "u", "d", "?", "=">>), Str(<<"Q", "U", "J", "D">>), Str(<<"\n">>), Str(<<" ">>),
    Str(<<"p", "l", "a", "i", "n", " ", "c", "o", "n", "t", "i", "n", "u",
        "a", "t", "i", "o", "n", " ", "t", "e", "x", "t">>) }

SubjectInit ==
  /\ subject \in TokenStrings(SubjectTokens, MaxSubjectTokens)
  /\ decoded_subject = Pending
  /\ BodyIdle /\ ParseIdle /\ SheetIdle /\ MainIdle

\* call(): no marker in the subject, which is returned as it is.
SubjectPassThrough ==
  /\ decoded_subject = Pending
  /\ ~SubjectDecoder_is_required_to_decode(subject)
  /\ decoded_subject' = Ok(subject)
  /\ UNCHANGED << subject, bodyVars, parseVars, sheetVars, mainVars >>

\* call(): a marker in the subject, which _decode_subject decodes.
SubjectDecode ==
  /\ decoded_subject = Pending
  /\ SubjectDecoder_is_required_to_decode(subject)
  /\ decoded_subject' = SubjectDecoder_decode_subject(subject)
  /\ UNCHANGED << subject, bodyVars, parseVars, sheetVars, mainVars >>

SubjectNext == SubjectPassThrough \/ SubjectDecode

SpecSubject == SubjectInit /\ [][SubjectNext]_vars

(***************************************************************************)
(* EmailDecoder(msg, charset, transfer_method).fetch_first_email()         *)
(***************************************************************************)

MaxBodyTokens == 3

BodyTokens ==
  { Str(<<"H", "i", " ", "t", "h", "e", "r", "e">>), Str(<<"\r", "\n">>), Str(<<"\n">>), Str(<<">", " ">>), Str(<<"F", "r", "o", "m", ":", " ", "x">>),
    Str(<<".", ".", "F", "r", "o", "m", ":", " ", "s", "o", "m", "e", "o",
        "n", "e", "@", "e", "x", "a", "m", "p", "l", "e", ".", "c", "o",
        "m", "\r", "\n", "O", "l", "d", " ", "r", "e", "p", "l", "y">>), Str(<<"=", "C", "3", "=", "A", "9">>), <<233>>,
    Str(<<"S", "G", "k", "N", "C", "k", "Z", "y", "b", "2", "0", "6", "I",
        "H", "g", "=">>) }

\* The charsets and the transfer encodings _is_readable_text lets through:
\* it compares the transfer encoding in lower case.
Charsets == {utf_8, iso_2022_jp, iso_8859_2, us_ascii}

TransferMethods == {base64, quoted_printable, Str(<<"B", "a", "s", "e", "6", "4">>), Str(<<"Q", "u", "o", "t", "e", "d", "-", "P", "r", "i", "n", "t", "a",
        "b", "l", "e">>)}

BodyInit ==
  /\ body \in [msg : TokenStrings(BodyTokens, MaxBodyTokens),
               charset : Charsets,
               transfer_method : TransferMethods]
  /\ bynary = Pending
  /\ first_email = Pending
  /\ SubjectIdle /\ ParseIdle /\ SheetIdle /\ MainIdle

\* EmailDecoder(...)
EmailDecoderInit ==
  /\ bynary = Pending
  /\ bynary' = EmailDecoder_init(body.msg, body.charset, body.transfer_method)
  /\ UNCHANGED << body, first_email, subjectVars, parseVars, sheetVars, mainVars >>

\* .fetch_first_email()
FetchFirstEmail ==
  /\ bynary.exc = ""
  /\ first_email = Pending
  /\ first_email' = EmailDecoder_fetch_first_email(bynary.val, body.charset,
                                                   body.transfer_method)
  /\ UNCHANGED << body, bynary, subjectVars, parseVars, sheetVars, mainVars >>

BodyNext == EmailDecoderInit \/ FetchFirstEmail

SpecBody == BodyInit /\ [][BodyNext]_vars

(***************************************************************************)
(* GmailMboxMessage(email_data).parse_email()                              *)
(***************************************************************************)

MaxNodes == 3

ContentTypes ==
  { None, Str(<<"t", "e", "x", "t", "/", "p", "l", "a", "i", "n", ";", " ", "c",
        "h", "a", "r", "s", "e", "t", "=", "u", "t", "f", "-", "8">>), Str(<<"T", "E", "X", "T", "/", "P", "L", "A", "I", "N", ";", " ", "c",
        "h", "a", "r", "s", "e", "t", "=", "U", "T", "F", "-", "8">>),
    Str(<<"t", "e", "x", "t", "/", "h", "t", "m", "l", ";", " ", "c", "h",
        "a", "r", "s", "e", "t", "=", "u", "t", "f", "-", "8">>), Str(<<"t", "e", "x", "t", "/", "p", "l", "a", "i", "n">>), Str(<<"t", "e", "x", "t", "/", "p", "l", "a", "i", "n", ";", " ", "c",
        "h", "a", "r", "s", "e", "t", "=", "i", "s", "o", "-", "8", "8",
        "5", "9", "-", "2">>),
    Str(<<"t", "e", "x", "t", "/", "p", "l", "a", "i", "n", ";", " ", "c",
        "h", "a", "r", "s", "e", "t", "=", "u", "s", "-", "a", "s", "c",
        "i", "i">>), Str(<<"t", "e", "x", "t", "/", "p", "l", "a", "i", "n", ";", " ", "c",
        "h", "a", "r", "s", "e", "t", "=", "u", "t", "f", "-", "1", "6">>) }

Encodings == {None, base64, Str(<<"B", "a", "s", "e", "6", "4">>), quoted_printable, Str(<<"7", "b", "i", "t">>)}

Payloads == {Str(<<"Q", "U", "J", "D">>), Str(<<"Q", "U", "J">>), Str(<<"H", "i", " ", "t", "h", "e", "r", "e", "\r", "\n", ">", " ", "F",
        "r", "o", "m", ":", " ", "x">>), Str(<<"=", "E", "9">>)}

\* Every leaf of the three sets above.
RichLeaves ==
  {LeafMessage(ct, cte, p) : ct \in ContentTypes, cte \in Encodings, p \in Payloads}

\* The leaves of the larger trees: one that is decoded, one that is not
\* readable, one whose decoding raises.
TreeLeaves ==
  { LeafMessage(Str(<<"t", "e", "x", "t", "/", "p", "l", "a", "i", "n", ";", " ", "c",
        "h", "a", "r", "s", "e", "t", "=", "u", "t", "f", "-", "8">>), quoted_printable,
                Str(<<"H", "i", " ", "t", "h", "e", "r", "e", "\r", "\n", ">", " ", "F",
        "r", "o", "m", ":", " ", "x">>)),
    LeafMessage(Str(<<"t", "e", "x", "t", "/", "h", "t", "m", "l", ";", " ", "c", "h",
        "a", "r", "s", "e", "t", "=", "u", "t", "f", "-", "8">>), base64, Str(<<"Q", "U", "J", "D">>)),
    LeafMessage(Str(<<"t", "e", "x", "t", "/", "p", "l", "a", "i", "n", ";", " ", "c",
        "h", "a", "r", "s", "e", "t", "=", "u", "t", "f", "-", "8">>), base64, Str(<<"Q", "U", "J">>)) }

multipart_mixed == Str(<<"m", "u", "l", "t", "i", "p", "a", "r", "t", "/", "m", "i", "x",
        "e", "d", ";", " ", "b", "o", "u", "n", "d", "a", "r", "y", "=",
        "b">>)

\* The parts, and the lists of parts, of exactly n nodes.
RECURSIVE PartsOfSize(_), ForestsOfSize(_)
PartsOfSize(n) ==
  (IF n = 1 THEN TreeLeaves ELSE {})
    \cup {MultipartMessage(multipart_mixed, None, f) : f \in ForestsOfSize(n - 1)}
    \cup {ListNode(f) : f \in ForestsOfSize(n - 1)}

ForestsOfSize(n) ==
  IF n = 0 THEN {<<>>}
  ELSE UNION {{<<p>> \o f : p \in PartsOfSize(k), f \in ForestsOfSize(n - k)} :
                k \in 1..n}

\* The messages: any leaf as a message of its own, any leaf as the one part
\* of a multipart message, and every multipart message of at most MaxNodes
\* parts.
Messages ==
  RichLeaves
    \cup {MultipartMessage(multipart_mixed, None, <<l>>) : l \in RichLeaves}
    \cup UNION {{MultipartMessage(multipart_mixed, None, f) : f \in ForestsOfSize(n)} :
                  n \in 0..MaxNodes}

Subjects == {None, Str(<<"=", "?", "u", "t", "f", "-", "8", "?", "B", "?", "Q", "U", "J",
        "D", "?", "=">>), Str(<<"=", "?", "u", "t", "f", "-", "8", "?", "B", "?", "Q", "U", "J">>)}

Email(Subject, msg) ==
  [Date |-> Str(<<"F", "r", "i", ",", " ", "3", " ", "D", "e", "c", " ", "2", "0",
        "2", "1">>), From |-> Str(<<"a", "@", "b", ".", "c">>), To |-> None, Subject |-> Subject,
   msg |-> msg]

ParseInit ==
  /\ email \in {Email(s, m) : s \in Subjects, m \in Messages}
  /\ parse_pc = "subject"
  /\ email_subject = Pending
  /\ email_messages = <<>>
  /\ read = <<>>
  /\ parse_result = Pending
  /\ SubjectIdle /\ BodyIdle /\ SheetIdle /\ MainIdle

\* email_subject = SubjectDecoder(str(self.email_data['Subject'])).call()
ParseSubject ==
  /\ parse_pc = "subject"
  /\ email_subject' = SubjectDecoder_call(IF email.Subject = None THEN Str(<<"N", "o", "n", "e">>)
                                          ELSE email.Subject)
  /\ IF email_subject'.exc # ""
     THEN parse_pc' = "raised" /\ parse_result' = Raise(email_subject'.exc)
     ELSE parse_pc' = "payload" /\ UNCHANGED parse_result
  /\ UNCHANGED << email, email_messages, read,
                  subjectVars, bodyVars, sheetVars, mainVars >>

\* _read_email_payload: email_messages
ParsePayload ==
  /\ parse_pc = "payload"
  /\ email_messages' = GmailMboxMessage_email_messages(email.msg)
  /\ parse_pc' = "texts"
  /\ UNCHANGED << email, email_subject, read, parse_result,
                  subjectVars, bodyVars, sheetVars, mainVars >>

\* _read_email_payload: _read_email_text of the next leaf
ParseReadText ==
  /\ parse_pc = "texts"
  /\ Len(read) < Len(email_messages)
  /\ \E msg \in {email_messages[Len(read) + 1]} :
       \E res \in {GmailMboxMessage_read_email_text(msg)} :
         /\ read' = Append(read, [msg |-> msg, res |-> res])
         /\ IF res.exc # ""
            THEN parse_pc' = "raised" /\ parse_result' = Raise(res.exc)
            ELSE UNCHANGED << parse_pc, parse_result >>
  /\ UNCHANGED << email, email_subject, email_messages,
                  subjectVars, bodyVars, sheetVars, mainVars >>

\* content = self._read_email_payload()[0], and the record
ParseRecord ==
  /\ parse_pc = "texts"
  /\ Len(read) = Len(email_messages)
  /\ IF read = <<>>
     THEN parse_pc' = "raised" /\ parse_result' = Raise("IndexError")
     ELSE /\ parse_pc' = "done"
          /\ parse_result' = Ok(Record(email, email_subject.val, read[1].res.val))
  /\ UNCHANGED << email, email_subject, email_messages, read,
                  subjectVars, bodyVars, sheetVars, mainVars >>

ParseNext == ParseSubject \/ ParsePayload \/ ParseReadText \/ ParseRecord

SpecParse == ParseInit /\ [][ParseNext]_vars

\* The steps above return and raise what parse_email as a whole does.
ParseStepsAgree ==
  parse_pc \in {"done", "raised"} =>
    LET whole == GmailMboxMessage_parse_email(email)
    IN /\ parse_result.exc = whole.exc
       /\ parse_result.exc = "" => parse_result.val = whole.val

(***************************************************************************)
(* ExcelSheet(worksheet).call(content)                                     *)
(***************************************************************************)

MaxCalls == 3

MaxFields == 2

SheetKeys == {Str(<<"D", "a", "t", "e">>), Str(<<"T", "e", "x", "t">>)}

SheetValues == {None, Str(<<"N", "A">>)}

\* The dicts of at most MaxFields items: the keys of a dict differ.
Contents ==
  UNION {{c \in [1..n -> {Pair(k, v) : k \in SheetKeys, v \in SheetValues}] :
            \A i, j \in 1..n : i # j => c[i].key # c[j].key} : n \in 0..MaxFields}

SheetInit ==
  /\ calls = <<>>
  /\ spreadsheet = ExcelSheet_init
  /\ worksheet = <<>>
  /\ SubjectIdle /\ BodyIdle /\ ParseIdle /\ MainIdle

\* spreadsheet.call(content)
SheetCall ==
  /\ Len(calls) < MaxCalls
  /\ \E content \in Contents :
       \E after \in {ExcelSheet_call(spreadsheet, content)} :
         /\ calls' = Append(calls, content)
         /\ spreadsheet' = after.self
         /\ worksheet' = worksheet \o after.calls
  /\ UNCHANGED << subjectVars, bodyVars, parseVars, mainVars >>

SheetNext == SheetCall

SpecSheet == SheetInit /\ [][SheetNext]_vars

(***************************************************************************)
(* main(args)                                                              *)
(***************************************************************************)

MaxMessages == 3

\* The messages of the mailboxes: one that is not multipart, one whose
\* first leaf is decoded, one whose Subject is an encoded word, one whose
\* leaf is not valid base64, and a multipart message without parts.
MailboxEmails ==
  { Email(Str(<<"p", "l", "a", "i", "n">>), LeafMessage(Str(<<"t", "e", "x", "t", "/", "p", "l", "a", "i", "n", ";", " ", "c",
        "h", "a", "r", "s", "e", "t", "=", "u", "t", "f", "-", "8">>), base64, Str(<<"Q", "U", "J", "D">>))),
    Email(Str(<<"p", "l", "a", "i", "n">>),
          MultipartMessage(multipart_mixed, None,
            << LeafMessage(Str(<<"t", "e", "x", "t", "/", "p", "l", "a", "i", "n", ";", " ", "c",
        "h", "a", "r", "s", "e", "t", "=", "u", "t", "f", "-", "8">>), quoted_printable,
                           Str(<<"H", "i", " ", "t", "h", "e", "r", "e", "\r", "\n", ">", " ", "F",
        "r", "o", "m", ":", " ", "x">>)),
               LeafMessage(Str(<<"t", "e", "x", "t", "/", "h", "t", "m", "l", ";", " ", "c", "h",
        "a", "r", "s", "e", "t", "=", "u", "t", "f", "-", "8">>), base64, Str(<<"Q", "U", "J", "D">>)) >>)),
    Email(Str(<<"=", "?", "u", "t", "f", "-", "8", "?", "B", "?", "Q", "U", "J",
        "D", "?", "=">>),
          MultipartMessage(multipart_mixed, None,
            << LeafMessage(Str(<<"t", "e", "x", "t", "/", "h", "t", "m", "l", ";", " ", "c", "h",
        "a", "r", "s", "e", "t", "=", "u", "t", "f", "-", "8">>), base64, Str(<<"Q", "U", "J", "D">>)) >>)),
    Email(Str(<<"p", "l", "a", "i", "n">>),
          MultipartMessage(multipart_mixed, None,
            << LeafMessage(Str(<<"t", "e", "x", "t", "/", "p", "l", "a", "i", "n", ";", " ", "c",
        "h", "a", "r", "s", "e", "t", "=", "u", "t", "f", "-", "8">>), base64, Str(<<"Q", "U", "J">>)) >>)),
    Email(Str(<<"p", "l", "a", "i", "n">>), MultipartMessage(multipart_mixed, None, <<>>)) }

Mailboxes == UNION {[1..n -> MailboxEmails] : n \in 0..MaxMessages}

MainInit ==
  /\ pc = "start"
  /\ mbox_obj \in Mailboxes
  /\ idx = 0
  /\ workbook = "unbound"
  /\ logged = <<>>
  /\ calls = <<>>
  /\ spreadsheet = ExcelSheet_init
  /\ worksheet = <<>>
  /\ SubjectIdle /\ BodyIdle /\ ParseIdle

\* mbox_obj = mailbox.mbox(args.i) ... num_entries = len(mbox_obj): the
\* mailbox opens, or mailbox.mbox raises before the workbook is made.
MainOpen ==
  /\ pc = "start"
  /\ \/ /\ workbook' = "open"
        /\ pc' = "loop"
        /\ UNCHANGED logged
     \/ /\ logged' = Append(logged, "OSError")
        /\ pc' = "finally"
        /\ UNCHANGED workbook
  /\ UNCHANGED << mbox_obj, idx, subjectVars, bodyVars, parseVars, sheetVars >>

\* One turn of the for loop: parse_email, spreadsheet.call, info.  What
\* parse_email raises leaves the loop for the except clause, which reports
\* it with error() and traceback.print_exc().
MainMessage ==
  /\ pc = "loop"
  /\ idx < Len(mbox_obj)
  /\ \E content \in {GmailMboxMessage_parse_email(mbox_obj[idx + 1])} :
       IF content.exc # ""
       THEN /\ logged' = Append(logged, content.exc)
            /\ pc' = "finally"
            /\ UNCHANGED << idx, sheetVars >>
       ELSE \E after \in {ExcelSheet_call(spreadsheet, content.val)} :
              /\ calls' = Append(calls, content.val)
              /\ spreadsheet' = after.self
              /\ worksheet' = worksheet \o after.calls
              /\ idx' = idx + 1
              /\ UNCHANGED << pc, logged >>
  /\ UNCHANGED << mbox_obj, workbook, subjectVars, bodyVars, parseVars >>

\* The for loop ends: every message is written.
MainLoopEnd ==
  /\ pc = "loop"
  /\ idx = Len(mbox_obj)
  /\ pc' = "finally"
  /\ UNCHANGED << mbox_obj, idx, workbook, logged,
                  subjectVars, bodyVars, parseVars, sheetVars >>

\* A faulty main, which closes the workbook at the end of the try block
\* and not in a finally clause: SinkReleased tells it from the code.
CloseAfterLoop ==
  /\ pc = "finally"
  /\ IF workbook = "unbound" \/ logged # <<>>
     THEN /\ pc' = IF workbook = "unbound" THEN "crashed" ELSE "exit"
          /\ UNCHANGED << workbook, worksheet >>
     ELSE /\ workbook' = "closed"
          /\ worksheet' = Append(worksheet, Close)
          /\ pc' = "exit"
  /\ UNCHANGED << mbox_obj, idx, logged, calls, spreadsheet,
                  subjectVars, bodyVars, parseVars >>

\* finally: workbook.close(); the name workbook is not bound when
\* mailbox.mbox raised, and main ends in UnboundLocalError.
MainFinally ==
  /\ pc = "finally"
  /\ IF workbook = "unbound"
     THEN pc' = "crashed" /\ UNCHANGED << workbook, worksheet >>
     ELSE /\ workbook' = "closed"
          /\ worksheet' = Append(worksheet, Close)
          /\ pc' = "exit"
  /\ UNCHANGED << mbox_obj, idx, logged, calls, spreadsheet,
                  subjectVars, bodyVars, parseVars >>

Next == MainOpen \/ MainMessage \/ MainLoopEnd \/ MainFinally

Init == MainInit

Spec == Init /\ [][Next]_vars


(***************************************************************************)
(* The properties                                                          *)
(***************************************************************************)

\* Whether parse_email raises on a message.
Raises(e) == GmailMboxMessage_parse_email(e).exc # ""

\* The records of the messages of a mailbox on which parse_email returns,
\* in the order of the mailbox.
RecordsOf(mbox) ==
  LET returned == SelectSeq(mbox, LAMBDA e : ~Raises(e))
  IN [i \in 1..Len(returned) |-> GmailMboxMessage_parse_email(returned[i]).val]

\* C1.  Batch continuation: when main has ended on a mailbox in which
\* exactly one message raises while it is parsed, a record was written to
\* the sink for each of the other messages, those after the one that raised
\* included, and exactly one failure was logged.
BatchContinuation ==
  (/\ pc = "exit"
   /\ Cardinality({k \in 1..Len(mbox_obj) : Raises(mbox_obj[k])}) = 1)
    => /\ calls = RecordsOf(mbox_obj)
       /\ Len(logged) = 1

\* The positions of the worksheet's log at which workbook.close() was called.
Closes == {i \in 1..Len(worksheet) : worksheet[i].op = "close"}

\* C2.  Guaranteed release of the sink: while the workbook is open, main is
\* in its loop, with a message to parse or the end of the loop ahead, or at
\* its finally clause, so that it does not stop before the close; the
\* workbook is closed at most once, exactly once when main has ended,
\* whether the loop ended or a message raised; and nothing is written to
\* the worksheet after the close.
SinkReleased ==
  /\ Cardinality(Closes) <= 1
  /\ \A i \in Closes : i = Len(worksheet)
  /\ workbook = "closed" <=> Closes # {}
  /\ workbook = "open" => (pc = "loop" /\ idx <= Len(mbox_obj)) \/ pc = "finally"
  /\ (pc \in {"exit", "crashed"} /\ workbook # "unbound") =>
       workbook = "closed" /\ Cardinality(Closes) = 1

\* C2: main has ended after a message raised in mid-batch, a record being
\* written before it, and the close is the last call on the sink.
SinkReleasedAfterFailure ==
  /\ pc = "exit"
  /\ logged # <<>>
  /\ calls # <<>>
  /\ idx < Len(mbox_obj)
  /\ worksheet[Len(worksheet)].op = "close"

text_html == Str(<<"t", "e", "x", "t", "/", "h", "t", "m", "l">>)

\* The gate as the specification words it, on the tuple of a leaf.
Eligible(content_type, charset, transfer) ==
  /\ Contains(lower(content_type), text_plain)
  /\ lower(transfer) = base64 \/ lower(transfer) = quoted_printable
  /\ charset = utf_8 \/ charset = iso_2022_jp \/ charset = iso_8859_2
       \/ charset = us_ascii

\* C3.  Eligibility gate: _read_email_text makes an EmailDecoder for a leaf
\* if and only if the content type of the leaf holds text/plain, its
\* transfer encoding is base64 or quoted-printable, whatever the case of
\* both, and its normalized charset is one of the four; every other leaf,
\* every text/html leaf among them, gets the text NA and raises nothing.
EligibilityGate ==
  \A i \in 1..Len(read) :
    LET res == read[i].res
        content_type == res.val[1]
        charset == res.val[2]
        transfer == res.val[3]
    IN /\ res.decoder <=> Eligible(content_type, charset, transfer)
       /\ ~res.decoder => res.exc = "" /\ res.val[4] = NA
       /\ Contains(lower(content_type), text_html) => ~res.decoder

\* C3: a text/plain leaf was passed to EmailDecoder, which returned its
\* text, and a text/html leaf declared as base64 and utf-8 got NA.
EligibilityGateBothWays ==
  /\ \E i \in 1..Len(read) :
       /\ read[i].res.decoder
       /\ read[i].res.exc = ""
       /\ read[i].res.val[1] = text_plain
  /\ \E i \in 1..Len(read) :
       /\ read[i].msg.kind = "msg"
       /\ read[i].res.val = << text_html, utf_8, base64, NA >>
       /\ ~read[i].res.decoder

\* Whether s holds a marker =?<charset>?<B|Q>? whose charset is utf-8 or
\* iso-2022-jp in any letter case.
HasMarkerInAnyCase(s) == SubjectSearch(lower(s), 1) # 0

\* C4.  Encoded-word detection is case-insensitive in the charset: on a
\* header value that holds a marker whose charset is written in any letter
\* case, call takes the decode path and does not return the value unchanged.
DetectionIgnoresCase ==
  (decoded_subject # Pending /\ HasMarkerInAnyCase(subject)) =>
    /\ SubjectDecoder_is_required_to_decode(subject)
    /\ decoded_subject # Ok(subject)

\* The lines of a header value that hold a marker.
MarkedLines(s) ==
  SelectSeq(SplitChar(s, 10), LAMBDA line : SubjectSearch(line, 1) # 0)

\* C5.  In the decode path a line of 10 or more characters without a marker
\* is dropped silently: the result is what decoding the lines that hold a
\* marker gives, in their order, and the line without one raises nothing.
UnmarkedLineDropped ==
  (decoded_subject # Pending /\ SubjectDecoder_is_required_to_decode(subject)) =>
    decoded_subject = SubjectDecoder_decode_lines(MarkedLines(subject), 1, <<>>)

\* The text before the first position of D at which two characters of any
\* kind come before "From:", all of D when there is none.
BeforeAnyTwoThenFrom(D) ==
  IF \E i \in 1..Len(D) : i + 1 <= Len(D) /\ MatchAt(D, From_colon, i + 2)
  THEN LET p == CHOOSE i \in 1..Len(D) :
                  /\ i + 1 <= Len(D)
                  /\ MatchAt(D, From_colon, i + 2)
                  /\ \A k \in 1..(i - 1) : ~MatchAt(D, From_colon, k + 2)
       IN Slice(D, 1, p - 1)
  ELSE D

\* C6.  Chain split: fetch_first_email returns the decoded text D up to the
\* first position at which any two characters, line breaks included, come
\* before "From:", all of D when there is none, without its carriage
\* returns and line feeds.
ChainSplitOnAnyTwo ==
  (first_email # Pending /\ first_email.exc = "") =>
    LET D == Decoder_call(bynary.val, body.charset, body.transfer_method).val
    IN /\ first_email.val = RemoveChar(RemoveChar(BeforeAnyTwoThenFrom(D), 13), 10)
       /\ \A i \in 1..Len(first_email.val) : first_email.val[i] \notin {10, 13}

\* The leaves of a message tree, depth first and left to right; the leaf of
\* a message that is not multipart is its payload string.
RECURSIVE LeavesOf(_)
LeavesOf(parts) ==
  IF parts = <<>> THEN <<>>
  ELSE LET part == Head(parts)
       IN (IF part.kind = "list" \/ part.multi THEN LeavesOf(part.items)
           ELSE <<part>>) \o LeavesOf(Tail(parts))

Leaves(msg) == IF msg.multi THEN LeavesOf(msg.items) ELSE <<StrNode(msg.text)>>

\* The values of the items 5 to 8 of a record: Content_type, Charset,
\* Transfer and Text.
ContentOf(record) == [i \in 1..4 |-> record[i + 4].value]

\* C7.  parse_email returns a record for every message: when the Subject is
\* decoded and no leaf raises, parse_email returns a record of eight
\* fields, whose Content_type, Charset, Transfer and Text are the tuple of
\* the first leaf of the tree, if it has one; a multipart message without a
\* leaf gets a record too.
RecordForEveryMessage ==
  (/\ parse_pc \in {"done", "raised"}
   /\ email_subject.exc = ""
   /\ \A i \in 1..Len(read) : read[i].res.exc = "")
    => /\ parse_result.exc = ""
       /\ Len(parse_result.val) = 8
       /\ Leaves(email.msg) # <<>> =>
            ContentOf(parse_result.val)
              = GmailMboxMessage_read_email_text(Leaves(email.msg)[1]).val

\* The writes of the worksheet's log in row r, in the order they were made.
RowWrites(r) == SelectSeq(worksheet, LAMBDA w : w.op = "write" /\ w.row = r)

\* C8.  Row order of the sink: after n >= 1 calls of ExcelSheet.call, row 0
\* holds the keys of the first record, row k the values of the k-th record
\* for every k of 1..n, each in the order of the record from column 0 on,
\* nothing is written to another row, the row counter is n + 1, and no cell
\* is written twice.
RowOrder ==
  Len(calls) >= 1 =>
    /\ RowWrites(0) = [i \in 1..Len(calls[1]) |-> Write(0, i - 1, calls[1][i].key)]
    /\ \A k \in 1..Len(calls) :
         RowWrites(k) = [i \in 1..Len(calls[k]) |-> Write(k, i - 1, calls[k][i].value)]
    /\ \A i \in 1..Len(worksheet) :
         worksheet[i].op = "write" => worksheet[i].row \in 0..Len(calls)
    /\ spreadsheet.row = Len(calls) + 1
    /\ \A i, j \in 1..Len(worksheet) :
         (/\ i # j
          /\ worksheet[i].op = "write"
          /\ worksheet[j].op = "write"
          /\ worksheet[i].row = worksheet[j].row)
           => worksheet[i].col # worksheet[j].col

\* C8: two records of two fields each were written after the title row.
RowOrderTwoRecords ==
  /\ Len(calls) >= 2
  /\ Len(calls[1]) = 2
  /\ Len(calls[2]) = 2
  /\ Len(RowWrites(0)) = 2
  /\ Len(RowWrites(2)) = 2

\* C9.  Every leaf that passes the gate is transfer-decoded: whatever the
\* case in which its transfer encoding is declared, _decode_with_transfer
\* takes one of its two branches and returns bytes, never None, and the
\* charset decoding never raises for want of them.
EligibleLeafIsTransferDecoded ==
  \A i \in 1..Len(read) :
    read[i].res.decoder =>
      LET charset == read[i].res.val[2]
          encoding == read[i].res.val[3]
          self == EmailDecoder_init(get_payload(read[i].msg).text, charset, encoding)
      IN /\ self.exc = "" =>
              Decoder_decode_with_transfer(self.val, encoding) # Ok(None)
         /\ read[i].res.exc # "AttributeError"

\* C10.  A message that is not multipart, whatever its Content-Type and
\* Content-Transfer-Encoding: its single leaf is the bare payload string,
\* no EmailDecoder is made for it and reading it raises nothing, so that
\* parse_email raises only what decoding the Subject raises, and the record
\* it returns holds NA as Content_type, Charset, Transfer and Text.
NonMultipartIsNA ==
  ~email.msg.multi =>
    /\ parse_pc \in {"texts", "done"} => email_messages = <<StrNode(email.msg.text)>>
    /\ \A i \in 1..Len(read) :
         /\ ~read[i].res.decoder
         /\ read[i].res.exc = ""
         /\ read[i].res.val = << NA, NA, NA, NA >>
    /\ parse_pc = "raised" => read = <<>> /\ parse_result.exc = email_subject.exc
    /\ parse_pc = "done" => ContentOf(parse_result.val) = << NA, NA, NA, NA >>

\* C10: parse_email returned the record of a message that is not multipart
\* and declares text/plain, utf-8 and base64.
NonMultipartPlainBase64 ==
  /\ ~email.msg.multi
  /\ email.msg.ctype = Str(<<"t", "e", "x", "t", "/", "p", "l", "a", "i", "n", ";", " ", "c",
        "h", "a", "r", "s", "e", "t", "=", "u", "t", "f", "-", "8">>)
  /\ email.msg.cte = base64
  /\ parse_pc = "done"
  /\ Len(read) = 1
=============================================================================
